---- MODULE Spec2Model ----
(***************************************************************************)
(* A model of the monoio executor (runtime.rs), of its cross-thread wake   *)
(* path (Context::send_waker / Context::unpark_thread) and of the          *)
(* byte-slice implementation of AsyncReadRent (async_read_rent.rs).        *)
(***************************************************************************)
EXTENDS Integers, Sequences, FiniteSets, TLC

\* ------------------------------------------------------------------ bounds
\* Tasks a thread may spawn besides the root task.
MaxTasks == 2
\* Tasks the thread woken from another thread may spawn besides its root task.
MaxTargetTasks == 1
\* Calls of block_on (nested ones included) per thread.
MaxBlockOn == 2
\* Wakers a thread's inbound channel holds before senders wait.
MaxChannel == 2
\* Longest byte-slice source, and largest capacity of a buffer or an iovec.
\* Direct calls of unpark_thread and send_waker that are followed.
MaxPeerCalls == 3
MaxSource == 4
MaxCap == 3

Threads == {1, 2}
\* Values a root future may complete with (24 is the value of the
\* across_thread test).
Values == {"24", "7"}

\* A task is <<owner thread, index>>; index 0 is the task that holds the root
\* future in a build with the "sync" feature (spawn_without_static).
Tasks == Threads \X (0 .. MaxTasks)
Owner(k) == k[1]
RootTask(t) == <<t, 0>>
NoTask == <<0, 0>>
TasksOf(t) == {k \in Tasks : Owner(k) = t}

VARIABLES
  sync,         \* build feature "sync" (cfg at runtime.rs:128-131)
  pc,           \* position of each thread in block_on
  CURRENT,      \* scoped thread local CURRENT: is it set on the thread
  active,       \* executor loops on the thread's stack
  tasks,        \* context.tasks: the run queue of the thread's runtime
  SHOULD_POLL,  \* the root future's "poll needed" flag (thread local)
  max_round,    \* local max_round of the drain loop
  running,      \* the task inside t.run(), or NoTask
  state,        \* task state
  notified,     \* task's "wake pending" bit
  output,       \* output slot of the root task
  joinWaker,    \* the JoinHandle of the root task holds the dummy waker
  failure,      \* the panic a thread died of, or "none"
  calls,        \* calls of block_on so far
  ret,          \* value block_on returned, or "none"
  lastPoll,     \* result of the latest poll of join (line 152) in this block_on
  runs,         \* t.run() calls in the current batch
  batchN,       \* tasks.len() when the current batch started
  driverResult, \* result of the latest driver.submit()/driver.park()
  polled,       \* join was polled in the current iteration of the inner loop
  woke          \* a waker fired on the thread since the latest poll of join

execVars == <<sync, pc, CURRENT, active, tasks, SHOULD_POLL, max_round,
              running, state, notified, output, joinWaker, failure, calls,
              ret, lastPoll, runs, batchN, driverResult, polled, woke>>

\* Everything of the executor but the panic a thread died of.
execButFailure == <<sync, pc, CURRENT, active, tasks, SHOULD_POLL, max_round,
                    running, state, notified, output, joinWaker, calls, ret,
                    lastPoll, runs, batchN, driverResult, polled, woke>>

VARIABLES
  channel,            \* inbound waker channel of each thread's driver
  unparked,           \* pending unpark of each thread's driver
  unpark_cache,       \* Context.unpark_cache: id -> cached handle (0: none)
  waker_sender_cache, \* Context.waker_sender_cache: id -> cached sender
  registry,           \* thread ids that registered their endpoints
  pendingUnpark,      \* thread to unpark after a send_waker (0: none)
  prog,               \* the root future a thread runs
  step,               \* position inside the root future of the test
  oneshot,            \* the oneshot channels of the across_thread test
  received,           \* value a root received from its oneshot, or "none"
  debug,              \* build with debug_assertions
  peerCall            \* the latest unpark_thread/send_waker call and its path

crossVars == <<channel, unparked, unpark_cache, waker_sender_cache, registry,
               pendingUnpark, prog, step, oneshot, received, debug,
               peerCall>>

VARIABLES
  source,   \* the byte-slice source: its remaining bytes
  orig,     \* the source as first given
  fut,      \* the future returned by the latest read/readv not yet polled
  res,      \* what the latest polled future returned
  chunks    \* concatenation of the chunks the polled reads returned

ioVars == <<source, orig, fut, res, chunks>>

VARIABLES
  config,   \* a ListenerConfig value that is being built
  lastSet   \* per field: the argument of the latest call of its setter

netVars == <<config, lastSet>>

vars == <<execVars, crossVars, ioVars, netVars>>

\* -------------------------------------------------------------- executor
LoopPcs == {"batch", "pop", "run", "check", "root_poll", "empty_check",
            "submit", "park", "parked"}
PollPcs == {"run", "root_poll"}

Alive(t) == failure[t] = "none"

\* The root future a thread runs: "any" (arbitrary polls: any effect, any
\* result, any use of the runtime), "target" (the same within one block_on),
\* "waker" (a root that wakes tasks of other threads), "recv_send" and
\* "send_recv" (the two roots of tests::across_thread), "peer" (a root that
\* calls unpark_thread and send_waker for any thread id), "built" (a runtime
\* was built on the thread, which registered its endpoints, and block_on is
\* not called), "off" (no runtime).
Generic(t) == prog[t] \in {"any", "target", "waker"}
Full(t) == prog[t] = "any"
Arbitrary(t) == prog[t] \in {"any", "target"}

\* runtime.rs:118-121  assert!(!CURRENT.is_set(), ...)
ReentrancyAssertSkipped(t) == TRUE
ReentrancyAssert(t) == ~CURRENT[t]

\* TaskQueue::push / pop / len / is_empty (a FIFO, spec 4.C)
PushFront(q, k) == <<k>> \o q
Push(q, k) == Append(q, k)
PopKeepsHead(q) == q
PopRest(q) == Tail(q)

InQueue(q, k) == \E i \in DOMAIN q : q[i] = k

\* should_poll(): reads the flag and clears it; set_poll(): sets it.
SetPoll(t) == [SHOULD_POLL EXCEPT ![t] = TRUE]

\* ------------------------------------------------------------------ wakers
\* The task part of the world a waker acts on.
World == [st |-> state, nt |-> notified, q |-> tasks]

\* Waker of task k invoked on k's own thread: Idle -> Scheduled and a push
\* onto the owner's run queue; on a Running task only the "wake pending" bit;
\* nothing on a Scheduled or Completed one.
WakeLocal(w, k) ==
  IF w.st[k] = "idle"
  THEN [w EXCEPT !.st[k] = "scheduled", !.q[Owner(k)] = Push(@, k)]
  ELSE IF w.st[k] = "running"
  THEN [w EXCEPT !.nt[k] = TRUE]
  ELSE w

RECURSIVE WakeAll(_, _)
WakeAll(w, ws) ==
  IF ws = <<>> THEN w ELSE WakeAll(WakeLocal(w, Head(ws)), Tail(ws))

\* ---------------------------------------------------------------- block_on
\* runtime.rs:113-134: the reentrancy assert, then the context is installed,
\* the root future is spawned (sync) and set_poll() is called.
BlockOn(t) ==
  /\ Alive(t)
  /\ calls[t] < MaxBlockOn
  /\ pendingUnpark[t] = 0
  /\ prog[t] # "off"
  /\ \/ pc[t] \in {"idle", "returned"}
     \/ pc[t] = "run" /\ Full(t)
     \/ pc[t] = "root_poll" /\ Full(t) /\ ~sync
  /\ ~Full(t) => calls[t] = 0
  /\ calls' = [calls EXCEPT ![t] = @ + 1]
  /\ IF ~ReentrancyAssert(t)
     THEN /\ failure' = [failure EXCEPT ![t] = "reentrant"]
          /\ UNCHANGED <<sync, pc, CURRENT, active, tasks, SHOULD_POLL,
                         max_round, running, state, notified, output,
                         joinWaker, ret, lastPoll, runs, batchN, driverResult,
                         polled, woke>>
     ELSE /\ CURRENT' = [CURRENT EXCEPT ![t] = TRUE]
          /\ active' = [active EXCEPT ![t] = @ + 1]
          /\ IF sync
             THEN /\ state' = [state EXCEPT ![RootTask(t)] = "scheduled"]
                  /\ notified' = [notified EXCEPT ![RootTask(t)] = FALSE]
                  /\ tasks' = [tasks EXCEPT ![t] = Push(@, RootTask(t))]
             ELSE UNCHANGED <<state, notified, tasks>>
          /\ output' = [output EXCEPT ![t] = "none"]
          /\ joinWaker' = [joinWaker EXCEPT ![t] = FALSE]
          /\ SHOULD_POLL' = SetPoll(t)
          /\ pc' = [pc EXCEPT ![t] = "batch"]
          /\ ret' = [ret EXCEPT ![t] = "none"]
          /\ lastPoll' = [lastPoll EXCEPT ![t] = "none"]
          /\ polled' = [polled EXCEPT ![t] = FALSE]
          /\ woke' = [woke EXCEPT ![t] = FALSE]
          /\ UNCHANGED <<sync, max_round, running, failure, runs, batchN,
                         driverResult>>
  /\ UNCHANGED <<crossVars, ioVars, netVars>>

\* runtime.rs:138  let mut max_round = self.context.tasks.len() * 2;
BatchStart(t) ==
  /\ Alive(t) /\ pc[t] = "batch"
  /\ max_round' = [max_round EXCEPT ![t] = Len(tasks[t]) * 2]
  /\ batchN' = [batchN EXCEPT ![t] = Len(tasks[t])]
  /\ runs' = [runs EXCEPT ![t] = 0]
  /\ pc' = [pc EXCEPT ![t] = "pop"]
  /\ polled' = [polled EXCEPT ![t] = FALSE]
  /\ UNCHANGED <<sync, CURRENT, active, tasks, SHOULD_POLL, running, state,
                 notified, output, joinWaker, failure, calls, ret, lastPoll,
                 driverResult, woke>>
  /\ UNCHANGED <<crossVars, ioVars, netVars>>

\* runtime.rs:139-140  while let Some(t) = tasks.pop() { t.run(); ...
\* The loop ends when the queue is empty; else the head starts to run.
Pop(t) ==
  /\ Alive(t) /\ pc[t] = "pop"
  /\ IF tasks[t] = <<>>
     THEN /\ pc' = [pc EXCEPT ![t] = "check"]
          /\ UNCHANGED <<tasks, running, state, notified, runs>>
     ELSE /\ tasks' = [tasks EXCEPT ![t] = PopRest(@)]
          /\ running' = [running EXCEPT ![t] = Head(tasks[t])]
          /\ state' = [state EXCEPT ![Head(tasks[t])] = "running"]
          /\ notified' = [notified EXCEPT ![Head(tasks[t])] = FALSE]
          /\ runs' = [runs EXCEPT ![t] = @ + 1]
          /\ pc' = [pc EXCEPT ![t] = "run"]
  /\ UNCHANGED <<sync, CURRENT, active, SHOULD_POLL, max_round, output,
                 joinWaker, failure, calls, ret, lastPoll, batchN,
                 driverResult, polled, woke>>
  /\ UNCHANGED <<crossVars, ioVars, netVars>>

\* runtime.rs:141-146: after t.run() the round budget is checked.
AfterRunPc(t) == IF max_round[t] = 0 THEN "check" ELSE "pop"
AfterRunRound(t) == IF max_round[t] = 0 THEN 0 ELSE max_round[t] - 1

\* The end of t.run(): the poll of the running task returned r. A Ready task
\* completes (the root task stores its output and wakes its joiner); a Pending
\* task goes back to the queue if it was woken while it ran, else idles.
RunEndTask(t, r) ==
  LET k == running[t] IN
  /\ IF r = "pending"
     THEN /\ IF notified[k]
             THEN /\ state' = [state EXCEPT ![k] = "scheduled"]
                  /\ tasks' = [tasks EXCEPT ![t] = Push(@, k)]
             ELSE /\ state' = [state EXCEPT ![k] = "idle"]
                  /\ UNCHANGED tasks
          /\ notified' = [notified EXCEPT ![k] = FALSE]
          /\ UNCHANGED <<output, SHOULD_POLL>>
     ELSE /\ state' = [state EXCEPT ![k] = "complete"]
          /\ notified' = [notified EXCEPT ![k] = FALSE]
          /\ IF k = RootTask(t)
             THEN /\ output' = [output EXCEPT ![t] = r]
                  /\ SHOULD_POLL' = IF joinWaker[t] THEN SetPoll(t)
                                    ELSE SHOULD_POLL
             ELSE UNCHANGED <<output, SHOULD_POLL>>
          /\ UNCHANGED tasks
  /\ woke' = IF r # "pending" /\ k = RootTask(t) /\ joinWaker[t]
             THEN [woke EXCEPT ![t] = TRUE] ELSE woke
  /\ running' = [running EXCEPT ![t] = NoTask]
  /\ pc' = [pc EXCEPT ![t] = AfterRunPc(t)]
  /\ max_round' = [max_round EXCEPT ![t] = AfterRunRound(t)]
  /\ UNCHANGED <<sync, CURRENT, active, joinWaker, failure, calls, ret,
                 lastPoll, runs, batchN, driverResult, polled>>

TaskResults(k) ==
  IF k = RootTask(Owner(k)) THEN Values \cup {"pending"}
  ELSE {"ready", "pending"}

RunEnd(t) ==
  /\ Alive(t) /\ pc[t] = "run" /\ Generic(t) /\ pendingUnpark[t] = 0
  /\ \E r \in TaskResults(running[t]) : RunEndTask(t, r)
  /\ UNCHANGED <<crossVars, ioVars, netVars>>

\* A thread is inside a poll of arbitrary user code: a task's poll, or the
\* root future's own poll (without "sync" the root is polled in place; with
\* it the root is a task and line 152 polls its JoinHandle).
InUserPoll(t) ==
  /\ Alive(t) /\ Arbitrary(t) /\ pendingUnpark[t] = 0
  /\ \/ pc[t] = "run"
     \/ pc[t] = "root_poll" /\ ~sync

SpawnLimit(t) == IF Full(t) THEN MaxTasks ELSE MaxTargetTasks

FreeIndex(t) ==
  CHOOSE i \in 1 .. SpawnLimit(t) :
    /\ state[<<t, i>>] = "none"
    /\ \A j \in 1 .. (i - 1) : state[<<t, j>>] # "none"

\* runtime.rs:342-360  spawn: the task is pushed onto the queue of the
\* context in CURRENT; CURRENT.with panics when no context is installed.
Spawn(t) ==
  /\ \/ InUserPoll(t)
     \/ Alive(t) /\ Full(t) /\ pc[t] \in {"idle", "returned"}
  /\ \E i \in 1 .. SpawnLimit(t) : state[<<t, i>>] = "none"
  /\ IF CURRENT[t]
     THEN /\ state' = [state EXCEPT ![<<t, FreeIndex(t)>>] = "scheduled"]
          /\ tasks' = [tasks EXCEPT ![t] = Push(@, <<t, FreeIndex(t)>>)]
          /\ UNCHANGED failure
     ELSE /\ failure' = [failure EXCEPT ![t] = "no_context"]
          /\ UNCHANGED <<state, tasks>>
  /\ UNCHANGED <<sync, pc, CURRENT, active, SHOULD_POLL, max_round, running,
                 notified, output, joinWaker, calls, ret, lastPoll, runs,
                 batchN, driverResult, polled, woke>>
  /\ UNCHANGED <<crossVars, ioVars, netVars>>

Live(k) == state[k] \in {"idle", "scheduled", "running"}

\* User code invokes the waker of one of the thread's own tasks.
WakeTask(t) ==
  /\ InUserPoll(t)
  /\ \E k \in TasksOf(t) :
       /\ Live(k)
       /\ LET w == WakeLocal(World, k) IN
          /\ state' = w.st
          /\ notified' = w.nt
          /\ tasks' = w.q
  /\ woke' = [woke EXCEPT ![t] = TRUE]
  /\ UNCHANGED <<sync, pc, CURRENT, active, SHOULD_POLL, max_round, running,
                 output, joinWaker, failure, calls, ret, lastPoll, runs,
                 batchN, driverResult, polled>>
  /\ UNCHANGED <<crossVars, ioVars, netVars>>

\* User code invokes the root future's waker: without "sync" that is the
\* dummy waker of line 123, whose wake is set_poll().
WakeRoot(t) ==
  /\ InUserPoll(t)
  /\ ~sync
  /\ SHOULD_POLL' = SetPoll(t)
  /\ woke' = [woke EXCEPT ![t] = TRUE]
  /\ UNCHANGED <<sync, pc, CURRENT, active, tasks, max_round, running, state,
                 notified, output, joinWaker, failure, calls, ret, lastPoll,
                 runs, batchN, driverResult, polled>>
  /\ UNCHANGED <<crossVars, ioVars, netVars>>

\* runtime.rs:150  if should_poll() { ... }: the flag is read and cleared.
RootPollAlways(t) == TRUE
RootPollNeeded(t) == SHOULD_POLL[t]

CheckRoot(t) ==
  /\ Alive(t) /\ pc[t] = "check"
  /\ pc' = [pc EXCEPT ![t] = IF RootPollNeeded(t) THEN "root_poll"
                             ELSE "empty_check"]
  /\ polled' = [polled EXCEPT ![t] = RootPollNeeded(t)]
  /\ SHOULD_POLL' = [SHOULD_POLL EXCEPT ![t] = FALSE]
  /\ UNCHANGED <<sync, CURRENT, active, tasks, max_round, running, state,
                 notified, output, joinWaker, failure, calls, ret, lastPoll,
                 runs, batchN, driverResult, woke>>
  /\ UNCHANGED <<crossVars, ioVars, netVars>>

\* runtime.rs:152-154, 176: Ready(v) ends block_on with v; leaving the scope
\* of CURRENT.set uninstalls the context. The queue is not touched.
ReturnKeepsContext(t, r) ==
  /\ pc' = [pc EXCEPT ![t] = "returned"]
  /\ ret' = [ret EXCEPT ![t] = r]
  /\ active' = [active EXCEPT ![t] = @ - 1]
  /\ UNCHANGED <<CURRENT, tasks, state>>
ReturnDropsQueue(t, r) ==
  /\ pc' = [pc EXCEPT ![t] = "returned"]
  /\ ret' = [ret EXCEPT ![t] = r]
  /\ CURRENT' = [CURRENT EXCEPT ![t] = FALSE]
  /\ active' = [active EXCEPT ![t] = @ - 1]
  /\ tasks' = [tasks EXCEPT ![t] = <<>>]
  /\ state' = [k \in Tasks |->
                 IF InQueue(tasks[t], k) THEN "dropped" ELSE state[k]]
Return(t, r) ==
  /\ pc' = [pc EXCEPT ![t] = "returned"]
  /\ ret' = [ret EXCEPT ![t] = r]
  /\ CURRENT' = [CURRENT EXCEPT ![t] = FALSE]
  /\ active' = [active EXCEPT ![t] = @ - 1]
  /\ UNCHANGED <<tasks, state>>

\* runtime.rs:152-155: the outcome of the poll of `join`.
PollAlwaysReturns(t, r) == Return(t, r)
PollOutcome(t, r) ==
  IF r = "pending"
  THEN /\ pc' = [pc EXCEPT ![t] = "empty_check"]
       /\ UNCHANGED <<ret, CURRENT, active, tasks, state>>
  ELSE Return(t, r)

\* Without "sync": the poll of the root future itself returns r.
RootPollEnd(t) ==
  /\ Alive(t) /\ pc[t] = "root_poll" /\ ~sync /\ Generic(t)
  /\ \E r \in Values \cup {"pending"} :
       /\ lastPoll' = [lastPoll EXCEPT ![t] = r]
       /\ PollOutcome(t, r)
  /\ woke' = [woke EXCEPT ![t] = FALSE]
  /\ UNCHANGED <<sync, SHOULD_POLL, max_round, running, notified, output,
                 joinWaker, failure, calls, runs, batchN, driverResult,
                 polled>>
  /\ UNCHANGED <<crossVars, ioVars, netVars>>

\* With "sync": the poll of the root task's JoinHandle. It is Ready with the
\* task's output once the task completed; else it leaves the dummy waker in
\* the task and is Pending.
JoinResult(t) ==
  IF state[RootTask(t)] = "complete" THEN output[t] ELSE "pending"

JoinPoll(t) ==
  /\ Alive(t) /\ pc[t] = "root_poll" /\ sync
  /\ lastPoll' = [lastPoll EXCEPT ![t] = JoinResult(t)]
  /\ joinWaker' = [joinWaker EXCEPT ![t] = (JoinResult(t) = "pending")]
  /\ PollOutcome(t, JoinResult(t))
  /\ woke' = [woke EXCEPT ![t] = FALSE]
  /\ UNCHANGED <<sync, SHOULD_POLL, max_round, running, notified, output,
                 failure, calls, runs, batchN, driverResult, polled>>
  /\ UNCHANGED <<crossVars, ioVars, netVars>>

\* runtime.rs:157-169: with an empty queue the inner loop is left for
\* driver.park(); else driver.submit() is called and the inner loop goes on.
NoSubmitTurn(t) == IF tasks[t] = <<>> THEN "park" ELSE "batch"
ParkRegardless(t) == "park"
NextDriverCall(t) == IF tasks[t] = <<>> THEN "park" ELSE "submit"

\* runtime.rs:157-161  if self.context.tasks.is_empty() { break; }
EmptyCheck(t) ==
  /\ Alive(t) /\ pc[t] = "empty_check"
  /\ pc' = [pc EXCEPT ![t] = NextDriverCall(t)]
  /\ UNCHANGED <<sync, CURRENT, active, tasks, SHOULD_POLL, max_round,
                 running, state, notified, output, joinWaker, failure, calls,
                 ret, lastPoll, runs, batchN, driverResult, polled, woke>>
  /\ UNCHANGED <<crossVars, ioVars, netVars>>

\* runtime.rs:164, 169-174: the result of submit() and of park() is dropped
\* (let _ =), or only traced; either way the loop goes on with a batch.
AfterDriverCallFails(r) == IF r = "err" THEN "returned" ELSE "batch"
AfterDriverCall(r) == "batch"

\* runtime.rs:164  let _ = self.driver.submit();
Submit(t) ==
  /\ Alive(t) /\ pc[t] = "submit"
  /\ \E r \in {"ok", "err"} :
       /\ driverResult' = [driverResult EXCEPT ![t] = r]
       /\ pc' = [pc EXCEPT ![t] = AfterDriverCall(r)]
  /\ UNCHANGED <<sync, CURRENT, active, tasks, SHOULD_POLL, max_round,
                 running, state, notified, output, joinWaker, failure, calls,
                 ret, lastPoll, runs, batchN, polled, woke>>
  /\ UNCHANGED <<crossVars, ioVars, netVars>>

\* ------------------------------------------------------- cross-thread wake
\* No unpark_thread or send_waker call was made yet.
NoCall ==
  [n |-> 0, op |-> "none", by |-> 0, id |-> 0, w |-> NoTask, via |-> "none"]

\* flume::Sender::send through the sender of thread e: the waker joins e's
\* inbound channel; a send to a peer whose runtime (and so its receiver) is
\* gone fails and the error is ignored (let _ =).
ChanSend(e, w) ==
  IF pc[e] = "dropped" THEN channel
  ELSE [channel EXCEPT ![e] = Append(@, w)]

\* driver::thread::get_unpark_handle / get_waker_sender: the endpoint that
\* thread id registered (it delivers to thread id), or none (0).
GetUnparkHandle(id) == IF id \in registry THEN id ELSE 0
GetWakerSender(id) == IF id \in registry THEN id ELSE 0

\* debug_assert!(false, ...): a panic in a build with debug_assertions,
\* nothing in a release build.
DebugAssertFalse(t) ==
  IF debug THEN [failure EXCEPT ![t] = "debug_assert"] ELSE failure

\* Where a call finds the endpoint: the first test is the thread's cache,
\* the second the global registry.
SendVia(t, id) ==
  IF waker_sender_cache[t][id] # 0 THEN "cache"
  ELSE IF GetWakerSender(id) # 0 THEN "registry"
  ELSE "miss"
UnparkVia(t, id) ==
  IF unpark_cache[t][id] # 0 THEN "cache"
  ELSE IF GetUnparkHandle(id) # 0 THEN "registry"
  ELSE "miss"

\* runtime.rs:85-102  Context::send_waker
SendWakerMissForgets(t, id, w) ==
  IF SendVia(t, id) = "cache"
  THEN /\ channel' = ChanSend(waker_sender_cache[t][id], w)
       /\ UNCHANGED <<waker_sender_cache, failure>>
  ELSE IF SendVia(t, id) = "registry"
  THEN /\ waker_sender_cache' =
            [waker_sender_cache EXCEPT ![t][id] = GetWakerSender(id)]
       /\ UNCHANGED <<channel, failure>>
  ELSE /\ failure' = DebugAssertFalse(t)
       /\ UNCHANGED <<channel, waker_sender_cache>>
SendWaker(t, id, w) ==
  IF SendVia(t, id) = "cache"
  THEN /\ channel' = ChanSend(waker_sender_cache[t][id], w)
       /\ UNCHANGED <<waker_sender_cache, failure>>
  ELSE IF SendVia(t, id) = "registry"
  THEN /\ channel' = ChanSend(GetWakerSender(id), w)
       /\ waker_sender_cache' =
            [waker_sender_cache EXCEPT ![t][id] = GetWakerSender(id)]
       /\ UNCHANGED failure
  ELSE /\ failure' = DebugAssertFalse(t)
       /\ UNCHANGED <<channel, waker_sender_cache>>

\* runtime.rs:65-83  Context::unpark_thread
UnparkThreadMissForgets(t, id) ==
  IF UnparkVia(t, id) = "cache"
  THEN /\ unparked' = [unparked EXCEPT ![unpark_cache[t][id]] = TRUE]
       /\ UNCHANGED <<unpark_cache, failure>>
  ELSE IF UnparkVia(t, id) = "registry"
  THEN /\ unpark_cache' =
            [unpark_cache EXCEPT ![t][id] = GetUnparkHandle(id)]
       /\ UNCHANGED <<unparked, failure>>
  ELSE /\ failure' = DebugAssertFalse(t)
       /\ UNCHANGED <<unparked, unpark_cache>>
UnparkThreadBlind(t, id) ==
  IF UnparkVia(t, id) = "cache"
  THEN /\ unparked' = [unparked EXCEPT ![unpark_cache[t][id]] = TRUE]
       /\ UNCHANGED <<unpark_cache, failure>>
  ELSE /\ unpark_cache' = [unpark_cache EXCEPT ![t][id] = id]
       /\ unparked' = [unparked EXCEPT ![id] = TRUE]
       /\ UNCHANGED failure
UnparkThread(t, id) ==
  IF UnparkVia(t, id) = "cache"
  THEN /\ unparked' = [unparked EXCEPT ![unpark_cache[t][id]] = TRUE]
       /\ UNCHANGED <<unpark_cache, failure>>
  ELSE IF UnparkVia(t, id) = "registry"
  THEN /\ unpark_cache' =
            [unpark_cache EXCEPT ![t][id] = GetUnparkHandle(id)]
       /\ unparked' = [unparked EXCEPT ![GetUnparkHandle(id)] = TRUE]
       /\ UNCHANGED failure
  ELSE /\ failure' = DebugAssertFalse(t)
       /\ UNCHANGED <<unparked, unpark_cache>>

\* ------------------------------------------------------------------ driver
\* The run queue, task states and wake bits after the driver handed every
\* waker of the thread's inbound channel to wake().
Drained(t) == WakeAll(World, channel[t])

\* runtime.rs:169  self.driver.park(): the driver consults the inbound waker
\* channel and a pending unpark; with neither it blocks.
ParkEnter(t) ==
  /\ Alive(t) /\ pc[t] = "park"
  /\ IF channel[t] # <<>> \/ unparked[t]
     THEN /\ state' = Drained(t).st
          /\ notified' = Drained(t).nt
          /\ tasks' = Drained(t).q
          /\ channel' = [channel EXCEPT ![t] = <<>>]
          /\ unparked' = [unparked EXCEPT ![t] = FALSE]
          /\ driverResult' = [driverResult EXCEPT ![t] = "ok"]
          /\ pc' = [pc EXCEPT ![t] = AfterDriverCall("ok")]
     ELSE /\ pc' = [pc EXCEPT ![t] = "parked"]
          /\ UNCHANGED <<state, notified, tasks, channel, unparked,
                         driverResult>>
  /\ woke' = [woke EXCEPT ![t] = @ \/ channel[t] # <<>>]
  /\ UNCHANGED <<sync, CURRENT, active, SHOULD_POLL, max_round, running,
                 output, joinWaker, failure, calls, ret, lastPoll, runs,
                 batchN, polled>>
  /\ UNCHANGED <<unpark_cache, waker_sender_cache, registry, pendingUnpark,
                 prog, step, oneshot, received, debug, peerCall>>
  /\ UNCHANGED <<ioVars, netVars>>

\* Tasks a completion or a timer of the driver may wake.
Suspended(t) == {k \in TasksOf(t) : state[k] \in {"idle", "scheduled"}}

\* park() returns Ok: an unpark from another thread, or (for a runtime whose
\* futures use I/O or timers) a completion that wakes the waker stored with
\* it: a task's waker (k) or the root's dummy waker (d). The wakers of the
\* inbound channel are woken too.
ParkReturn(t) ==
  /\ Alive(t) /\ pc[t] = "parked"
  /\ unparked[t] \/ Generic(t)
  /\ \E k \in (IF Arbitrary(t) THEN Suspended(t) ELSE {}) \cup {NoTask},
        d \in (IF Generic(t) /\ ~sync THEN BOOLEAN ELSE {FALSE}) :
       LET w == IF k = NoTask THEN Drained(t)
                ELSE WakeLocal(Drained(t), k) IN
       /\ state' = w.st
       /\ notified' = w.nt
       /\ tasks' = w.q
       /\ SHOULD_POLL' = IF d THEN SetPoll(t) ELSE SHOULD_POLL
       /\ woke' = [woke EXCEPT ![t] =
                     @ \/ d \/ k # NoTask \/ channel[t] # <<>>]
  /\ channel' = [channel EXCEPT ![t] = <<>>]
  /\ unparked' = [unparked EXCEPT ![t] = FALSE]
  /\ driverResult' = [driverResult EXCEPT ![t] = "ok"]
  /\ pc' = [pc EXCEPT ![t] = AfterDriverCall("ok")]
  /\ UNCHANGED <<sync, CURRENT, active, max_round, running, output, joinWaker,
                 failure, calls, ret, lastPoll, runs, batchN, polled>>
  /\ UNCHANGED <<unpark_cache, waker_sender_cache, registry, pendingUnpark,
                 prog, step, oneshot, received, debug, peerCall>>
  /\ UNCHANGED <<ioVars, netVars>>

\* park() returns Err: nothing was delivered; block_on ignores the error.
ParkError(t) ==
  /\ Alive(t) /\ pc[t] = "parked"
  /\ Generic(t)
  /\ driverResult' = [driverResult EXCEPT ![t] = "err"]
  /\ pc' = [pc EXCEPT ![t] = AfterDriverCall("err")]
  /\ UNCHANGED <<sync, CURRENT, active, tasks, SHOULD_POLL, max_round,
                 running, state, notified, output, joinWaker, failure, calls,
                 ret, lastPoll, runs, batchN, polled, woke>>
  /\ UNCHANGED <<crossVars, ioVars, netVars>>

\* The panic of a failed assert unwinds the thread's stack: the scope of
\* CURRENT.set ends.
Unwind(t) ==
  /\ ~Alive(t) /\ pc[t] # "aborted"
  /\ pc' = [pc EXCEPT ![t] = "aborted"]
  /\ CURRENT' = [CURRENT EXCEPT ![t] = FALSE]
  /\ active' = [active EXCEPT ![t] = 0]
  /\ running' = [running EXCEPT ![t] = NoTask]
  /\ UNCHANGED <<sync, tasks, SHOULD_POLL, max_round, state, notified, output,
                 joinWaker, failure, calls, ret, lastPoll, runs, batchN,
                 driverResult, polled, woke>>
  /\ UNCHANGED <<crossVars, ioVars, netVars>>

\* runtime.rs:105-109: dropping the Runtime drops its driver, then its
\* context and with it the tasks still in the run queue.
DropRuntime(t) ==
  /\ Alive(t)
  /\ \/ Full(t) /\ pc[t] = "returned"
     \/ prog[t] = "built" /\ pc[t] = "idle"
  /\ pc' = [pc EXCEPT ![t] = "dropped"]
  /\ tasks' = [tasks EXCEPT ![t] = <<>>]
  /\ state' = [k \in Tasks |->
                 IF InQueue(tasks[t], k) THEN "dropped" ELSE state[k]]
  /\ UNCHANGED <<sync, CURRENT, active, SHOULD_POLL, max_round, running,
                 notified, output, joinWaker, failure, calls, ret, lastPoll,
                 runs, batchN, driverResult, polled, woke>>
  /\ UNCHANGED <<crossVars, ioVars, netVars>>

\* ------------------------------------------------- wakes from other threads
\* A task's waker invoked on thread t: on the owner's thread it wakes in
\* place; on another thread the waker is forwarded with send_waker and the
\* owner's driver is unparked next (RemoteUnpark).
RemoteWakeSend(t, w) ==
  /\ SendWaker(t, Owner(w), w)
  /\ pendingUnpark' = [pendingUnpark EXCEPT ![t] = Owner(w)]

\* The second half of a remote wake: ctx.unpark_thread(owner).
RemoteUnpark(t) ==
  /\ Alive(t) /\ pendingUnpark[t] # 0
  /\ UnparkThread(t, pendingUnpark[t])
  /\ pendingUnpark' = [pendingUnpark EXCEPT ![t] = 0]
  /\ UNCHANGED <<channel, waker_sender_cache, registry, prog, step, oneshot,
                 received, debug, peerCall>>
  /\ UNCHANGED <<execButFailure, ioVars, netVars>>

\* Wakers a call of send_waker for thread id may carry.
WakersOf(id) == {k \in Tasks : Owner(k) = id /\ k[2] <= 1}

\* ctx.unpark_thread(id) called from a poll on thread t, for any id.
CallUnparkThread(t) ==
  /\ Alive(t) /\ prog[t] = "peer" /\ pc[t] = "run"
  /\ peerCall.n < MaxPeerCalls
  /\ \E id \in Threads :
       /\ UnparkThread(t, id)
       /\ peerCall' = [n |-> peerCall.n + 1, op |-> "unpark", by |-> t,
                       id |-> id, w |-> NoTask, via |-> UnparkVia(t, id)]
  /\ UNCHANGED <<channel, waker_sender_cache, registry, pendingUnpark, prog,
                 step, oneshot, received, debug>>
  /\ UNCHANGED <<execButFailure, ioVars, netVars>>

\* ctx.send_waker(id, w) called from a poll on thread t, for any id.
CallSendWaker(t) ==
  /\ Alive(t) /\ prog[t] = "peer" /\ pc[t] = "run"
  /\ peerCall.n < MaxPeerCalls
  /\ \E id \in Threads :
       /\ Len(channel[id]) < MaxChannel
       /\ \E w \in WakersOf(id) :
            /\ SendWaker(t, id, w)
            /\ peerCall' = [n |-> peerCall.n + 1, op |-> "send", by |-> t,
                            id |-> id, w |-> w, via |-> SendVia(t, id)]
  /\ UNCHANGED <<unparked, unpark_cache, registry, pendingUnpark, prog, step,
                 oneshot, received, debug>>
  /\ UNCHANGED <<execButFailure, ioVars, netVars>>

\* The root of a "waker" thread, while it is polled, invokes the waker of a
\* task of another thread.
RemoteWake(t) ==
  /\ Alive(t) /\ prog[t] = "waker" /\ pc[t] = "run" /\ pendingUnpark[t] = 0
  /\ \E k \in Tasks :
       /\ Owner(k) # t /\ Live(k)
       /\ Len(channel[Owner(k)]) < MaxChannel
       /\ RemoteWakeSend(t, k)
  /\ UNCHANGED <<unparked, unpark_cache, registry, prog, step, oneshot,
                 received, debug, peerCall>>
  /\ UNCHANGED <<execButFailure, ioVars, netVars>>

\* --------------------------------------------------- tests::across_thread
\* runtime.rs:388-407. Thread 1 runs `n = rx1.await; tx2.send(n)`, thread 2
\* runs `tx1.send(24); assert_eq!(rx2.await, 24)`. oneshot[c] is channel c.
InChan(t) == IF prog[t] = "recv_send" THEN 1 ELSE 2
OutChan(t) == IF prog[t] = "recv_send" THEN 2 ELSE 1
SendStep(t) == IF prog[t] = "recv_send" THEN "received" ELSE "start"
RecvStep(t) == IF prog[t] = "recv_send" THEN "start" ELSE "sent"
LastStep(t) == IF prog[t] = "recv_send" THEN "sent" ELSE "received"
Sent(t) == IF prog[t] = "recv_send" THEN received[t] ELSE "24"

InTestPoll(t) ==
  /\ Alive(t) /\ prog[t] \in {"recv_send", "send_recv"}
  /\ pc[t] = "run" /\ running[t] = RootTask(t)
  /\ pendingUnpark[t] = 0

\* tx.send(v): the value is stored and the receiver's waker, if one is
\* registered, is taken and woken.
TestSend(t) ==
  /\ InTestPoll(t) /\ step[t] = SendStep(t)
  /\ oneshot' = [oneshot EXCEPT ![OutChan(t)] =
                   [value |-> Sent(t), waker |-> NoTask]]
  /\ step' = [step EXCEPT ![t] = "sent"]
  /\ woke' = [woke EXCEPT ![t] = @ \/ Owner(oneshot[OutChan(t)].waker) = t]
  /\ LET w == oneshot[OutChan(t)].waker IN
     IF w = NoTask
     THEN UNCHANGED <<channel, waker_sender_cache, pendingUnpark, state,
                      notified, tasks, failure>>
     ELSE IF Owner(w) = t
     THEN /\ state' = WakeLocal(World, w).st
          /\ notified' = WakeLocal(World, w).nt
          /\ tasks' = WakeLocal(World, w).q
          /\ UNCHANGED <<channel, waker_sender_cache, pendingUnpark,
                         failure>>
     ELSE /\ RemoteWakeSend(t, w)
          /\ UNCHANGED <<state, notified, tasks>>
  /\ UNCHANGED <<sync, pc, CURRENT, active, SHOULD_POLL, max_round, running,
                 output, joinWaker, calls, ret, lastPoll, runs, batchN,
                 driverResult, polled>>
  /\ UNCHANGED <<unparked, unpark_cache, registry, prog, received, debug,
                 peerCall>>
  /\ UNCHANGED <<ioVars, netVars>>

\* rx.await: Ready with the value if one was sent; else the task's waker is
\* left in the channel and the poll of the task is Pending.
TestRecv(t) ==
  /\ InTestPoll(t) /\ step[t] = RecvStep(t)
  /\ IF oneshot[InChan(t)].value # "none"
     THEN /\ received' = [received EXCEPT ![t] = oneshot[InChan(t)].value]
          /\ step' = [step EXCEPT ![t] = "received"]
          /\ UNCHANGED <<execVars, oneshot>>
     ELSE /\ oneshot' = [oneshot EXCEPT ![InChan(t)].waker = RootTask(t)]
          /\ RunEndTask(t, "pending")
          /\ UNCHANGED <<received, step>>
  /\ UNCHANGED <<channel, unparked, unpark_cache, waker_sender_cache,
                 registry, pendingUnpark, prog, debug, peerCall>>
  /\ UNCHANGED <<ioVars, netVars>>

\* The end of the root: thread 2 asserts the value it received, then both
\* roots are Ready(()).
TestDone(t) ==
  /\ InTestPoll(t) /\ step[t] = LastStep(t)
  /\ step' = [step EXCEPT ![t] = "done"]
  /\ IF prog[t] = "send_recv" /\ received[t] # "24"
     THEN /\ failure' = [failure EXCEPT ![t] = "assert_eq"]
          /\ UNCHANGED <<sync, pc, CURRENT, active, tasks, SHOULD_POLL,
                         max_round, running, state, notified, output,
                         joinWaker, calls, ret, lastPoll, runs, batchN,
                         driverResult, polled, woke>>
     ELSE RunEndTask(t, "()")
  /\ UNCHANGED <<channel, unparked, unpark_cache, waker_sender_cache,
                 registry, pendingUnpark, prog, oneshot, received, debug,
                 peerCall>>
  /\ UNCHANGED <<ioVars, netVars>>

\* ------------------------------------------- AsyncReadRent for &[u8]
Bytes == {65, 66}
\* What a byte of a buffer holds before anything was written to it.
Blank == 0
BufIds == {1, 2}

Min(a, b) == IF a < b THEN a ELSE b
Take(q, n) == SubSeq(q, 1, n)
Skip(q, n) == SubSeq(q, n + 1, Len(q))
Blanks(c) == [i \in 1 .. c |-> Blank]

\* A buffer: its identity, its iovecs (an IoBufMut is one contiguous region)
\* and its initialized length.
NoBuf == [id |-> 0, iov |-> <<>>, init |-> 0]
NoFut == [kind |-> "none", buf |-> NoBuf, given |-> NoBuf, n |-> 0,
          before |-> <<>>]
NoRes == [kind |-> "none", ok |-> TRUE, n |-> 0, buf |-> NoBuf,
          given |-> NoBuf, before |-> <<>>, after |-> <<>>]

\* IoBufMut::bytes_total of a contiguous buffer
BytesTotal(b) == Len(b.iov[1])

\* write_ptr().copy_from_nonoverlapping(a.as_ptr(), amt): the first amt bytes
\* of the region become a, the rest is untouched.
CopyInto(b, a) ==
  [b EXCEPT !.iov[1] =
     [i \in 1 .. Len(@) |-> IF i <= Len(a) THEN a[i] ELSE @[i]]]

\* set_init(n): n bytes of the buffer are initialized.
SetInit(b, n) == [b EXCEPT !.init = n]

\* async_read_rent.rs:65  min(self.len(), buf.bytes_total())
ReadAmt(src, b) == Min(Len(src), BytesTotal(b))

\* async_read_rent.rs:64-73  read: everything but the construction of the
\* (Ok(amt), buf) pair happens in the call, before the future exists.
ReadBuf(src, b) == SetInit(CopyInto(b, Take(src, ReadAmt(src, b))),
                           ReadAmt(src, b))
ReadRestKeepsAll(src, b) == src
ReadRest(src, b) == Skip(src, ReadAmt(src, b))

\* RawBuf::new_from_iovec_mut: no buffer for an empty iovec set, else the
\* region of the first iovec.
RawBuf(b) == [id |-> b.id, iov |-> <<b.iov[1]>>, init |-> 0]

\* async_read_rent.rs:77-80  the byte count readv gets
ReadvAmt(src, b) ==
  IF b.iov = <<>> THEN 0 ELSE ReadAmt(src, RawBuf(b))
\* async_read_rent.rs:77-84  the buffer readv hands back
ReadvBuf(src, b) ==
  IF b.iov = <<>> THEN SetInit(b, 0)
  ELSE SetInit([b EXCEPT !.iov[1] = ReadBuf(src, RawBuf(b)).iov[1]],
               ReadvAmt(src, b))
ReadvRestSkipsOne(src, b) ==
  IF b.iov = <<>> THEN Skip(src, Min(1, Len(src)))
  ELSE ReadRest(src, RawBuf(b))
ReadvRest(src, b) ==
  IF b.iov = <<>> THEN src ELSE ReadRest(src, RawBuf(b))

\* The buffers handed to read (fresh, or reused with all bytes initialized)
\* and to readv (no iovec, one, or two).
Contiguous ==
  UNION {{[id |-> i, iov |-> <<Blanks(c)>>, init |-> n] :
            i \in BufIds, n \in {0, c}} : c \in 0 .. MaxCap}
Vectored ==
  {[id |-> i, iov |-> v, init |-> 0] :
     i \in BufIds,
     v \in {<<>>} \cup {<<Blanks(c)>> : c \in 0 .. MaxCap}
           \cup {<<Blanks(c), Blanks(1)>> : c \in 0 .. MaxCap}}

\* source.read(buf)
CallRead ==
  /\ fut.kind = "none"
  /\ \E b \in Contiguous :
       /\ fut' = [kind |-> "read", buf |-> ReadBuf(source, b), given |-> b,
                  n |-> ReadAmt(source, b), before |-> source]
       /\ source' = ReadRest(source, b)
  /\ UNCHANGED <<orig, res, chunks>>
  /\ UNCHANGED <<execVars, crossVars, netVars>>

\* async_read_rent.rs:75-76  what the call of readv leaves of the source:
\* the body of readv is one async block, none of which runs in the call.
ReadvCallEager(src, b) == ReadvRest(src, b)
ReadvCallRest(src, b) == src

\* source.readv(buf): the async block captures the buffer and does nothing
\* until it is polled.
CallReadv ==
  /\ fut.kind = "none"
  /\ \E b \in Vectored :
       fut' = [kind |-> "readv", buf |-> b, given |-> b, n |-> 0,
               before |-> source]
  /\ source' = ReadvCallRest(source, fut'.given)
  /\ UNCHANGED <<orig, res, chunks>>
  /\ UNCHANGED <<execVars, crossVars, netVars>>

\* The first poll of the future: both futures are Ready at once.
PollRead ==
  /\ fut.kind = "read"
  /\ res' = [kind |-> "read", ok |-> TRUE, n |-> fut.n, buf |-> fut.buf,
             given |-> fut.given, before |-> fut.before, after |-> source]
  /\ chunks' = chunks \o Take(fut.buf.iov[1], fut.n)
  /\ fut' = NoFut
  /\ UNCHANGED <<source, orig>>
  /\ UNCHANGED <<execVars, crossVars, netVars>>

PollReadv ==
  /\ fut.kind = "readv"
  /\ res' = [kind |-> "readv", ok |-> TRUE, n |-> ReadvAmt(source, fut.buf),
             buf |-> ReadvBuf(source, fut.buf), given |-> fut.given,
             before |-> source, after |-> ReadvRest(source, fut.buf)]
  /\ source' = ReadvRest(source, fut.buf)
  /\ chunks' = chunks \o Take(source, ReadvAmt(source, fut.buf))
  /\ fut' = NoFut
  /\ UNCHANGED orig
  /\ UNCHANGED <<execVars, crossVars, netVars>>

\* The future returned by read or readv is dropped without a poll: the async
\* block never runs. res records what the dropped future was.
DropFut ==
  /\ fut.kind # "none"
  /\ res' = [kind |-> IF fut.kind = "read" THEN "dropped_read"
                      ELSE "dropped_readv",
             ok |-> TRUE, n |-> fut.n, buf |-> NoBuf, given |-> NoBuf,
             before |-> fut.before, after |-> source]
  /\ fut' = NoFut
  /\ UNCHANGED <<source, orig, chunks>>
  /\ UNCHANGED <<execVars, crossVars, netVars>>

RECURSIVE SeqsUpTo(_)
SeqsUpTo(n) ==
  IF n = 0 THEN {<<>>}
  ELSE SeqsUpTo(n - 1) \cup
       {Append(q, b) : q \in {x \in SeqsUpTo(n - 1) : Len(x) = n - 1},
                       b \in Bytes}

\* ------------------------------------------------------- ListenerConfig
\* Option<T>: None is the empty sequence, Some(v) the sequence of v.
None == <<>>
Some(v) == <<v>>

\* Arguments the setters are called with: socket addresses, i32 backlogs
\* (the default among them) and usize buffer sizes.
Addrs == {"127.0.0.1:80", "[::1]:443"}
Backlogs == {-1, 128, 1024}
Sizes == {0, 4096}

Fields == {"reuse_port", "reuse_addr", "ip_transparent", "bind_address",
           "backlog", "send_buf_size", "recv_buf_size"}

\* listener_config.rs:20-32  <ListenerConfig as Default>::default
Default ==
  [reuse_port |-> TRUE, reuse_addr |-> TRUE, ip_transparent |-> FALSE,
   bind_address |-> None, backlog |-> 1024, send_buf_size |-> None,
   recv_buf_size |-> None]

\* listener_config.rs:37-40
reuse_port(self, v) == [self EXCEPT !.reuse_port = v]
\* listener_config.rs:44-47
reuse_addr(self, v) == [self EXCEPT !.reuse_addr = v]
\* listener_config.rs:51-54
ip_transparent(self, v) == [self EXCEPT !.ip_transparent = v]
\* listener_config.rs:58-61
bind_address(self, v) == [self EXCEPT !.bind_address = Some(v)]
\* listener_config.rs:65-68
backlog(self, v) == [self EXCEPT !.backlog = v]
\* listener_config.rs:72-75
send_buf_size_sets_recv(self, v) == [self EXCEPT !.recv_buf_size = Some(v)]
send_buf_size(self, v) == [self EXCEPT !.send_buf_size = Some(v)]
\* listener_config.rs:79-82
recv_buf_size(self, v) == [self EXCEPT !.recv_buf_size = Some(v)]

\* No setter was called yet.
NeverSet == [f \in Fields |-> None]

\* config = config.f(v) for each of the seven setters.
CallReusePort ==
  /\ \E v \in BOOLEAN :
       /\ config' = reuse_port(config, v)
       /\ lastSet' = [lastSet EXCEPT !.reuse_port = Some(v)]
  /\ UNCHANGED <<execVars, crossVars, ioVars>>

CallReuseAddr ==
  /\ \E v \in BOOLEAN :
       /\ config' = reuse_addr(config, v)
       /\ lastSet' = [lastSet EXCEPT !.reuse_addr = Some(v)]
  /\ UNCHANGED <<execVars, crossVars, ioVars>>

CallIpTransparent ==
  /\ \E v \in BOOLEAN :
       /\ config' = ip_transparent(config, v)
       /\ lastSet' = [lastSet EXCEPT !.ip_transparent = Some(v)]
  /\ UNCHANGED <<execVars, crossVars, ioVars>>

CallBindAddress ==
  /\ \E v \in Addrs :
       /\ config' = bind_address(config, v)
       /\ lastSet' = [lastSet EXCEPT !.bind_address = Some(v)]
  /\ UNCHANGED <<execVars, crossVars, ioVars>>

CallBacklog ==
  /\ \E v \in Backlogs :
       /\ config' = backlog(config, v)
       /\ lastSet' = [lastSet EXCEPT !.backlog = Some(v)]
  /\ UNCHANGED <<execVars, crossVars, ioVars>>

CallSendBufSize ==
  /\ \E v \in Sizes :
       /\ config' = send_buf_size(config, v)
       /\ lastSet' = [lastSet EXCEPT !.send_buf_size = Some(v)]
  /\ UNCHANGED <<execVars, crossVars, ioVars>>

CallRecvBufSize ==
  /\ \E v \in Sizes :
       /\ config' = recv_buf_size(config, v)
       /\ lastSet' = [lastSet EXCEPT !.recv_buf_size = Some(v)]
  /\ UNCHANGED <<execVars, crossVars, ioVars>>

\* ------------------------------------------------------------ specification
\* ListenerConfig::default(), no setter called.
InitConfig == config = Default /\ lastSet = NeverSet

NoIo ==
  /\ source = <<>> /\ orig = <<>> /\ fut = NoFut /\ res = NoRes
  /\ chunks = <<>>
  /\ InitConfig

InitExec(S, P, D) ==
  /\ sync \in S
  /\ pc = [t \in Threads |-> "idle"]
  /\ CURRENT = [t \in Threads |-> FALSE]
  /\ active = [t \in Threads |-> 0]
  /\ tasks = [t \in Threads |-> <<>>]
  /\ SHOULD_POLL = [t \in Threads |-> TRUE]
  /\ max_round = [t \in Threads |-> 0]
  /\ running = [t \in Threads |-> NoTask]
  /\ state = [k \in Tasks |-> "none"]
  /\ notified = [k \in Tasks |-> FALSE]
  /\ output = [t \in Threads |-> "none"]
  /\ joinWaker = [t \in Threads |-> FALSE]
  /\ failure = [t \in Threads |-> "none"]
  /\ calls = [t \in Threads |-> 0]
  /\ ret = [t \in Threads |-> "none"]
  /\ lastPoll = [t \in Threads |-> "none"]
  /\ runs = [t \in Threads |-> 0]
  /\ batchN = [t \in Threads |-> 0]
  /\ driverResult = [t \in Threads |-> "none"]
  /\ polled = [t \in Threads |-> FALSE]
  /\ woke = [t \in Threads |-> FALSE]
  /\ channel = [t \in Threads |-> <<>>]
  /\ unparked = [t \in Threads |-> FALSE]
  /\ unpark_cache = [t \in Threads |-> [id \in Threads |-> 0]]
  /\ waker_sender_cache = [t \in Threads |-> [id \in Threads |-> 0]]
  /\ registry = {t \in Threads : P[t] # "off"}
  /\ pendingUnpark = [t \in Threads |-> 0]
  /\ prog = P
  /\ step = [t \in Threads |-> "start"]
  /\ oneshot = [c \in {1, 2} |-> [value |-> "none", waker |-> NoTask]]
  /\ received = [t \in Threads |-> "none"]
  /\ debug \in D
  /\ peerCall = NoCall

\* One runtime on thread 1, either build, arbitrary root future and tasks.
Init ==
  /\ InitExec(BOOLEAN, [t \in Threads |-> IF t = 1 THEN "any" ELSE "off"],
              {FALSE})
  /\ NoIo

Executor(t) ==
  \/ BlockOn(t)
  \/ BatchStart(t)
  \/ Pop(t)
  \/ RunEnd(t)
  \/ Spawn(t)
  \/ WakeTask(t)
  \/ WakeRoot(t)
  \/ CheckRoot(t)
  \/ RootPollEnd(t)
  \/ JoinPoll(t)
  \/ EmptyCheck(t)
  \/ Submit(t)
  \/ ParkEnter(t)
  \/ ParkReturn(t)
  \/ ParkError(t)
  \/ Unwind(t)
  \/ DropRuntime(t)

Next == \E t \in {1} : Executor(t)

Spec == Init /\ [][Next]_vars

\* Thread 1 runs one block_on of a "sync" build with arbitrary tasks; the root
\* of thread 2 wakes tasks of thread 1.
InitWake ==
  /\ InitExec({TRUE}, [t \in Threads |-> IF t = 1 THEN "target" ELSE "waker"],
              {FALSE})
  /\ NoIo

Target(t) ==
  \/ BlockOn(t)
  \/ BatchStart(t)
  \/ Pop(t)
  \/ RunEnd(t)
  \/ Spawn(t)
  \/ WakeTask(t)
  \/ CheckRoot(t)
  \/ JoinPoll(t)
  \/ EmptyCheck(t)
  \/ Submit(t)
  \/ ParkEnter(t)
  \/ ParkReturn(t)
  \/ ParkError(t)

\* The waker thread is followed up to and through the poll of its root.
Waker(t) ==
  \/ BlockOn(t)
  \/ BatchStart(t)
  \/ Pop(t)
  \/ RemoteWake(t)
  \/ RemoteUnpark(t)

NextWake == (\E t \in {1} : Target(t)) \/ (\E t \in {2} : Waker(t))

SpecWake == InitWake /\ [][NextWake]_vars

\* One block_on on thread 1, either build, arbitrary root future and tasks;
\* the thread goes on running: a poll it is in returns, and every step of
\* block_on between two driver calls is taken. Whether and when park returns
\* is up to the driver.
InitTurn ==
  /\ InitExec(BOOLEAN, [t \in Threads |-> IF t = 1 THEN "target" ELSE "off"],
              {FALSE})
  /\ NoIo

Busy(t) ==
  \/ BlockOn(t)
  \/ BatchStart(t)
  \/ Pop(t)
  \/ RunEnd(t)
  \/ CheckRoot(t)
  \/ RootPollEnd(t)
  \/ JoinPoll(t)
  \/ EmptyCheck(t)
  \/ Submit(t)
  \/ ParkEnter(t)

Turn(t) ==
  \/ Busy(t)
  \/ Spawn(t)
  \/ WakeTask(t)
  \/ WakeRoot(t)
  \/ ParkReturn(t)
  \/ ParkError(t)

NextTurn == \E t \in {1} : Turn(t)

SpecTurn ==
  /\ InitTurn /\ [][NextTurn]_vars
  /\ \A t \in {1} : WF_vars(Busy(t))

\* A "sync" build, debug or release: the root of thread 1 calls unpark_thread
\* and send_waker for both thread ids; thread 2 has no runtime (its id is
\* not registered), or has one, which may be dropped.
InitPeer ==
  /\ \E p \in {"off", "built"} :
       InitExec({TRUE}, [t \in Threads |-> IF t = 1 THEN "peer" ELSE p],
                BOOLEAN)
  /\ NoIo

Peer(t) ==
  \/ BlockOn(t)
  \/ BatchStart(t)
  \/ Pop(t)
  \/ CallUnparkThread(t)
  \/ CallSendWaker(t)
  \/ Unwind(t)

NextPeer == (\E t \in {1} : Peer(t)) \/ (\E t \in {2} : DropRuntime(t))

SpecPeer == InitPeer /\ [][NextPeer]_vars

\* tests::across_thread: two runtimes of a "sync" build.
InitCross ==
  /\ InitExec({TRUE}, [t \in Threads |-> IF t = 1 THEN "recv_send"
                                         ELSE "send_recv"], {FALSE})
  /\ NoIo

TestThread(t) ==
  \/ BlockOn(t)
  \/ BatchStart(t)
  \/ Pop(t)
  \/ TestSend(t)
  \/ TestRecv(t)
  \/ TestDone(t)
  \/ RemoteUnpark(t)
  \/ CheckRoot(t)
  \/ JoinPoll(t)
  \/ EmptyCheck(t)
  \/ ParkEnter(t)
  \/ ParkReturn(t)

NextCross == \E t \in Threads : TestThread(t)

SpecCross ==
  /\ InitCross /\ [][NextCross]_vars
  /\ \A t \in Threads : WF_vars(TestThread(t))

\* A byte-slice source read with read and readv; no runtime is involved.
InitIdleExec ==
  InitExec({FALSE}, [t \in Threads |-> "off"], {FALSE})

InitRead ==
  /\ InitIdleExec
  /\ source \in SeqsUpTo(MaxSource)
  /\ orig = source
  /\ fut = NoFut /\ res = NoRes /\ chunks = <<>>
  /\ InitConfig

NextRead == CallRead \/ CallReadv \/ PollRead \/ PollReadv

SpecRead == InitRead /\ [][NextRead]_vars

\* The same source, with futures that may be dropped before their first poll.
NextDrop == CallRead \/ CallReadv \/ PollRead \/ PollReadv \/ DropFut

SpecDrop == InitRead /\ [][NextDrop]_vars

\* A ListenerConfig built from its default by any sequence of setter calls;
\* no runtime is involved.
InitBuilder == InitIdleExec /\ NoIo

NextBuilder ==
  \/ CallReusePort
  \/ CallReuseAddr
  \/ CallIpTransparent
  \/ CallBindAddress
  \/ CallBacklog
  \/ CallSendBufSize
  \/ CallRecvBufSize

SpecBuilder == InitBuilder /\ [][NextBuilder]_vars

\* ------------------------------------------------------------------ claims
Ready(r) == r \notin {"none", "pending"}

\* C1: a block_on called while CURRENT is set on the thread fails with the
\* "Can not start a runtime inside a runtime" panic and changes nothing else:
\* run queue, context, driver state, poll-needed flag, task states and the
\* outer executor's position are as before, and after the failure no root
\* future is polled and no task is run on the thread.
NestedBlockOnFailsUnchanged ==
  [][\A t \in Threads :
       /\ (CURRENT[t] /\ calls'[t] # calls[t]) =>
            /\ failure[t] = "none"
            /\ failure'[t] = "reentrant"
            /\ UNCHANGED <<tasks, CURRENT, active, SHOULD_POLL, pc, state,
                           notified, running, max_round, lastPoll, ret,
                           driverResult, channel, unparked, output,
                           joinWaker>>
       /\ failure[t] = "reentrant" =>
            /\ lastPoll'[t] = lastPoll[t]
            /\ tasks'[t] = tasks[t]
            /\ pc'[t] \in {pc[t], "aborted"}
    ]_vars

NestedBlockOnFailed ==
  \E t \in Threads :
    /\ failure[t] = "reentrant"
    /\ pc[t] = "run"
    /\ tasks[t] # <<>>
    /\ SHOULD_POLL[t]

\* The root future itself has been polled Ready in the running block_on:
\* without "sync" line 152 polls it; with "sync" it is polled inside the run
\* of the root task, which then is complete.
RootFutureReady(t) ==
  IF sync THEN pc[t] \in LoopPcs /\ state[RootTask(t)] = "complete"
  ELSE Ready(lastPoll[t])

\* C2 as stated: block_on returns at the first Ready poll of the root future:
\* it has not returned before one, and after one no task is run and the
\* driver is neither submitted to nor parked on.
ReturnsAtFirstReadyPollOfRootFuture ==
  \A t \in Threads :
    /\ pc[t] \in LoopPcs => ret[t] = "none"
    /\ pc[t] = "returned" => Ready(ret[t])
    /\ RootFutureReady(t) => pc[t] \notin {"run", "submit", "park", "parked"}

\* C2 amended: block_on has returned exactly when the poll of `join` at line
\* 152 was Ready(v), and it returned that v: inside the loop every poll of
\* join so far was Pending and no step of the loop follows a Ready one.
\* Without "sync" join is the root future. With "sync" join is the JoinHandle
\* of the task that holds the root future: once that task is complete the
\* loop only finishes the current batch (it may run other tasks) and polls
\* join, with no submit and no park before the return, and the value
\* returned is the task's output.
ReturnsExactlyOnReady ==
  \A t \in Threads :
    /\ pc[t] \in LoopPcs => ~Ready(lastPoll[t]) /\ ret[t] = "none"
    /\ pc[t] = "returned" => Ready(lastPoll[t]) /\ ret[t] = lastPoll[t]
    /\ Ready(lastPoll[t]) => pc[t] \in {"returned", "dropped", "aborted"}
    /\ (sync /\ RootFutureReady(t)) =>
         pc[t] \in {"pop", "run", "check", "root_poll"}
    /\ (sync /\ pc[t] = "returned") =>
         state[RootTask(t)] = "complete" /\ ret[t] = output[t]

\* With "sync": a task runs after the root task completed, and block_on goes
\* on to return with tasks queued and suspended.
TaskRunsAfterRootCompleted ==
  \E t \in Threads :
    /\ sync /\ pc[t] = "run" /\ output[t] = "7"
    /\ state[RootTask(t)] = "complete"
    /\ \E k \in TasksOf(t) : state[k] = "idle"

\* C3 as stated: once block_on has returned the run queue holds no task.
QueueEmptyAfterReturn ==
  \A t \in Threads : pc[t] = "returned" => tasks[t] = <<>>

\* C3 amended: the return of block_on leaves the run queue and the tasks as
\* they are; the next block_on on the runtime starts with those tasks at the
\* head of its queue (and so runs them); only dropping the runtime empties
\* the queue and drops the tasks in it.
QueueKeptUntilRuntimeDropped ==
  [][\A t \in Threads :
       /\ (pc[t] # "returned" /\ pc'[t] = "returned") =>
            tasks'[t] = tasks[t] /\ state' = state
       /\ (pc[t] = "returned" /\ pc'[t] = "batch") =>
            /\ Len(tasks'[t]) >= Len(tasks[t])
            /\ SubSeq(tasks'[t], 1, Len(tasks[t])) = tasks[t]
       /\ (pc[t] # "dropped" /\ pc'[t] = "dropped") =>
            /\ tasks'[t] = <<>>
            /\ \A k \in Tasks : InQueue(tasks[t], k) => state'[k] = "dropped"
    ]_vars

\* A task left over by the first block_on is run by the second one.
LeftoverTaskRunsInNextBlockOn ==
  \E t \in Threads :
    /\ Alive(t) /\ calls[t] = 2 /\ pc[t] = "run"
    /\ lastPoll[t] = "none" /\ runs[t] = 1
    /\ running[t] # RootTask(t)

\* C4 as stated: a batch that starts with N queued tasks runs at most 2N tasks.
BatchRunsAtMostTwiceN ==
  \A t \in Threads :
    pc[t] \in {"pop", "run", "check"} => runs[t] <= 2 * batchN[t]

\* C5: a task occurs at most once in the run queue, the queued tasks are
\* exactly the Scheduled ones, and a task that is running (woken or not) is
\* not in the queue.
TaskQueuedAtMostOnce ==
  \A t \in Threads :
    /\ \A i, j \in DOMAIN tasks[t] : i # j => tasks[t][i] # tasks[t][j]
    /\ \A k \in TasksOf(t) :
         /\ InQueue(tasks[t], k) <=> state[k] = "scheduled"
         /\ notified[k] => state[k] = "running"

WokenWhileRunning ==
  \E t \in Threads :
    /\ pc[t] = "run" /\ notified[running[t]]
    /\ Len(tasks[t]) = 2

\* C10: CURRENT is set on a thread exactly while the thread is inside the
\* loop of a block_on, and at most one executor is active per thread; a spawn
\* inside enqueues the new task on the runtime's queue, a spawn outside fails
\* and enqueues nothing, and a block_on after a return starts normally.
ContextInstalledOnlyInBlockOn ==
  /\ [](\A t \in Threads :
          /\ CURRENT[t] <=> pc[t] \in LoopPcs
          /\ CURRENT[t] <=> active[t] = 1
          /\ active[t] <= 1)
  /\ [][\A t \in Threads :
          /\ (failure[t] = "none" /\ failure'[t] = "no_context") =>
               ~CURRENT[t] /\ UNCHANGED <<tasks, state>>
          /\ \A k \in TasksOf(t) :
               (state[k] = "none" /\ state'[k] # "none" /\ k # RootTask(t)) =>
                  CURRENT[t] /\ tasks'[t] = Append(tasks[t], k)
          /\ (pc[t] = "returned" /\ calls'[t] # calls[t]) =>
               failure'[t] = "none" /\ CURRENT'[t] /\ pc'[t] = "batch"
       ]_vars

SecondBlockOnSpawned ==
  \E t \in Threads :
    /\ Alive(t) /\ calls[t] = 2 /\ CURRENT[t]
    /\ pc[t] = "root_poll" /\ tasks[t] # <<>>

\* C6: a thread is never blocked in park with a waker in its inbound channel
\* unless an unpark of its driver is pending or the sender is about to call
\* unpark_thread for it; and when park returns Ok the inbound channel is
\* empty and every task whose waker was in it has been woken (it is queued,
\* or was already running or complete).
NoLostCrossThreadWake ==
  /\ [](\A t \in Threads :
          (pc[t] = "parked" /\ channel[t] # <<>>) =>
             \/ unparked[t]
             \/ \E u \in Threads : pendingUnpark[u] = t)
  /\ [][\A t \in Threads :
          (/\ pc[t] \in {"park", "parked"} /\ pc'[t] = "batch"
           /\ driverResult'[t] = "ok") =>
             /\ channel'[t] = <<>>
             /\ ~unparked'[t]
             /\ \A i \in DOMAIN channel[t] :
                  /\ state'[channel[t][i]] # "idle"
                  /\ state[channel[t][i]] = "idle" =>
                       InQueue(tasks'[t], channel[t][i])
       ]_vars

WakeArrivedWhileParked ==
  /\ pc[1] = "parked" /\ unparked[1]
  /\ Len(channel[1]) = 2
  /\ state[channel[1][1]] = "idle"

\* C7: in tests::across_thread both block_on calls eventually return, under
\* every interleaving of the two threads; neither thread fails, and a root
\* that got a value got the 24 that thread 2 sent.
AcrossThreadTerminates ==
  /\ <>(\A t \in Threads : pc[t] = "returned" /\ received[t] = "24")
  /\ [](\A t \in Threads :
          /\ failure[t] = "none"
          /\ received[t] \in {"none", "24"}
          /\ pc[t] = "returned" => ret[t] = "()")

BothReturnedAfterRemoteWakes ==
  /\ \A t \in Threads : pc[t] = "returned" /\ received[t] = "24"
  /\ unpark_cache[1][2] = 2 /\ unpark_cache[2][1] = 1

\* C8: a polled read returned (Ok(n), buf) with n the smaller of the bytes the
\* source had and the buffer's capacity; buf is the buffer passed in, holds
\* the first n bytes of the source in its first n bytes, is otherwise
\* untouched and has init = n; the source lost exactly its first n bytes.
\* The chunks returned so far, followed by what is left, are the original
\* source; a read of an exhausted source returns Ok(0) and leaves it empty.
ReadReturnsPrefix ==
  /\ res.kind = "read" =>
       /\ res.ok
       /\ res.n = Min(Len(res.before), Len(res.given.iov[1]))
       /\ res.buf.id = res.given.id
       /\ Len(res.buf.iov[1]) = Len(res.given.iov[1])
       /\ Take(res.buf.iov[1], res.n) = Take(res.before, res.n)
       /\ Skip(res.buf.iov[1], res.n) = Skip(res.given.iov[1], res.n)
       /\ res.buf.init = res.n
       /\ res.after = Skip(res.before, res.n)
       /\ res.before = <<>> => res.n = 0 /\ res.after = <<>>
  /\ fut.kind = "none" => chunks \o source = orig
  /\ fut.kind = "read" =>
       /\ chunks \o Take(fut.before, fut.n) \o source = orig
       /\ source = Skip(fut.before, fut.n)

\* The scenario of the spec: 4 source bytes, capacity 3, the second read
\* returned Ok(1) and emptied the source.
SecondReadOfFourByThree ==
  /\ Len(orig) = 4 /\ orig[1] # orig[2]
  /\ res.kind = "read" /\ res.n = 1 /\ Len(res.given.iov[1]) = 3
  /\ res.given.init = 3
  /\ Len(res.before) = 1 /\ source = <<>> /\ chunks = orig

\* C9: a polled readv of an empty iovec set returned (Ok(0), buf) with the
\* buffer passed in, and the source is what it was when readv was called.
ReadvEmptyReturnsZero ==
  (res.kind = "readv" /\ res.given.iov = <<>>) =>
     /\ res.ok /\ res.n = 0
     /\ res.buf.id = res.given.id /\ res.buf.iov = <<>>
     /\ res.after = res.before
     /\ fut.kind = "none" => source = res.before

ReadvEmptyOnFullSource ==
  /\ res.kind = "readv" /\ res.given.iov = <<>>
  /\ Len(source) = 4 /\ chunks = <<>>

\* C11 as stated: a poll of the root future starts only when the "poll
\* needed" flag is set (with "sync" the root future is polled by the run of
\* the root task).
RootFuturePolledOnlyOnFlag ==
  [][\A t \in Threads :
       (IF sync THEN running'[t] = RootTask(t) /\ running[t] # RootTask(t)
        ELSE pc'[t] = "root_poll" /\ pc[t] # "root_poll") => SHOULD_POLL[t]
    ]_vars

\* C11 amended: `join` is polled (line 152) only when the "poll needed" flag
\* is set: a successful block_on sets the flag before the loop, so join is
\* polled before the first submit or park; the check of line 150 clears the
\* flag and polls join exactly if it was set; with the flag clear the loop
\* goes on to the is_empty test without a poll of join, whatever the batch
\* ran; nothing but line 152 polls join.
JoinPolledOnlyOnFlag ==
  /\ [](\A t \in Threads :
          pc[t] \in {"empty_check", "submit", "park", "parked"} =>
            lastPoll[t] = "pending")
  /\ [][\A t \in Threads :
          /\ (calls'[t] # calls[t] /\ failure'[t] = "none") =>
               SHOULD_POLL'[t] /\ ~polled'[t]
          /\ (pc[t] = "check" /\ pc'[t] # "check") =>
               /\ ~SHOULD_POLL'[t]
               /\ pc'[t] = "root_poll" <=> SHOULD_POLL[t]
               /\ polled'[t] <=> SHOULD_POLL[t]
               /\ ~SHOULD_POLL[t] =>
                    pc'[t] = "empty_check" /\ lastPoll'[t] = lastPoll[t]
          /\ (pc'[t] = "root_poll" /\ pc[t] # "root_poll") =>
               pc[t] = "check" /\ SHOULD_POLL[t]
          /\ (pc[t] \in LoopPcs /\ lastPoll'[t] # lastPoll[t]) =>
               pc[t] = "root_poll"
       ]_vars

\* An iteration whose batch ran three tasks and whose check found the flag
\* clear: join was not polled.
FlagClearIterationSkipsJoin ==
  \E t \in Threads :
    /\ pc[t] = "empty_check" /\ ~polled[t] /\ runs[t] = 3
    /\ lastPoll[t] = "pending" /\ driverResult[t] # "none"

\* C12 as stated: when block_on calls driver.park(), no waker has fired on the
\* thread since the latest poll of the root (join) ended: any wake, of the
\* root or of a task, is followed by a poll of the root before the park.
RootPolledAfterAnyWakeBeforePark ==
  \A t \in Threads : pc[t] = "park" => ~woke[t]

\* C20 as stated: block_on does not call driver.park(), nor block in it,
\* while the root's "poll needed" flag is set.
NeverParksWithPollFlagSet ==
  \A t \in Threads : pc[t] \in {"park", "parked"} => ~SHOULD_POLL[t]

IsPrefix(p, q) == Len(p) <= Len(q) /\ SubSeq(q, 1, Len(p)) = p

\* C13: the run queue is a FIFO of enqueue events: the task that starts to run
\* is the head of the queue and leaves it; every other change of the queue
\* (a spawn, a wake, the wakes a park delivers) appends behind the tasks that
\* were queued before, whose order stays as it was; a batch that ends on the
\* round budget leaves the queued tasks in their order.
TasksRunInQueueOrder ==
  [][\A t \in Threads :
       /\ (running'[t] # running[t] /\ running'[t] # NoTask) =>
            /\ tasks[t] # <<>>
            /\ running'[t] = Head(tasks[t])
            /\ tasks'[t] = Tail(tasks[t])
       /\ (tasks'[t] # tasks[t] /\ pc'[t] # "dropped") =>
            \/ IsPrefix(tasks[t], tasks'[t])
            \/ tasks'[t] = Tail(tasks[t]) /\ running'[t] = Head(tasks[t])
       /\ \A k \in TasksOf(t) :
            (state[k] # "scheduled" /\ state'[k] = "scheduled") =>
               \E i \in DOMAIN tasks'[t] :
                  /\ tasks'[t][i] = k
                  /\ i > Len(tasks[t])
       /\ (pc[t] = "run" /\ pc'[t] = "check") => IsPrefix(tasks[t], tasks'[t])
    ]_vars

\* A batch that started with one task was ended by the round budget with two
\* tasks still queued.
BatchBrokenWithTwoQueued ==
  \E t \in Threads :
    /\ pc[t] = "check" /\ batchN[t] = 1 /\ runs[t] = 3
    /\ Len(tasks[t]) = 2

\* The part of the loop between two driver calls: the batch, the root check
\* and the is_empty test.
DrainPcs == {"batch", "pop", "run", "check", "root_poll", "empty_check"}

\* C15: a batch starts only at the start of block_on or right after a driver
\* call (submit, or park); the is_empty test goes to submit with tasks queued
\* and to park with none, and each is followed by the next batch with no
\* other driver call in between; and a thread in block_on is never forever
\* between two driver calls, whatever its tasks do: time and again it is at
\* submit or park, or block_on has ended.
DriverTurnBetweenBatches ==
  /\ [][\A t \in Threads :
          /\ (pc'[t] = "batch" /\ pc[t] # "batch") =>
               \/ pc[t] \in {"submit", "park", "parked"}
               \/ calls'[t] # calls[t]
          /\ (pc[t] = "empty_check" /\ pc'[t] # pc[t]) =>
               /\ tasks[t] # <<>> => pc'[t] = "submit"
               /\ tasks[t] = <<>> => pc'[t] = "park"
          /\ pc[t] = "submit" => pc'[t] \in {"submit", "batch"}
          /\ pc[t] = "park" => pc'[t] \in {"park", "parked", "batch"}
          /\ pc[t] = "parked" => pc'[t] \in {"parked", "batch"}
       ]_vars
  /\ []<>(\A t \in Threads : pc[t] \notin DrainPcs)

\* A task that re-enqueues itself used up the round budget of a batch, and
\* the loop is at driver.submit() for the second time.
SubmitAfterBudgetBreak ==
  \E t \in Threads :
    /\ pc[t] = "submit" /\ driverResult[t] # "none"
    /\ batchN[t] = 1 /\ runs[t] = 3
    /\ tasks[t] # <<>>

\* C16: whenever block_on is at the call of driver.park(), or blocked in it,
\* the run queue is empty; park is reached only from the is_empty test of
\* line 157, the thread blocks nowhere but in park, and with a task queued
\* at that test (left by the batch or spawned by the root poll) the loop
\* goes to submit and the next batch.
ParksOnlyWithEmptyQueue ==
  /\ [](\A t \in Threads :
          pc[t] \in {"park", "parked"} => tasks[t] = <<>>)
  /\ [][\A t \in Threads :
          /\ (pc'[t] = "park" /\ pc[t] # "park") =>
               pc[t] = "empty_check" /\ tasks[t] = <<>>
          /\ (pc'[t] = "parked" /\ pc[t] # "parked") => pc[t] = "park"
          /\ (pc[t] = "empty_check" /\ tasks[t] # <<>> /\ pc'[t] # pc[t]) =>
               pc'[t] = "submit"
          /\ (pc[t] = "submit" /\ pc'[t] # pc[t]) => pc'[t] = "batch"
       ]_vars

\* The root poll spawned two tasks onto an empty queue and was Pending: the
\* loop is at submit, not at park.
SubmitAfterRootSpawned ==
  \E t \in Threads :
    /\ pc[t] = "submit" /\ polled[t] /\ batchN[t] = 0
    /\ Len(tasks[t]) = 2

\* C17: an error of driver.submit() or driver.park() ends nothing: block_on
\* neither returns nor fails, the context stays installed, run queue, task
\* states and the "poll needed" flag are as before the call, and the loop
\* is at the start of the next batch, where it is after an Ok as well.
DriverErrorsIgnored ==
  [][\A t \in Threads :
       (pc[t] \in {"submit", "park", "parked"} /\ pc'[t] # pc[t]
        /\ pc'[t] # "parked") =>
          /\ pc'[t] = "batch"
          /\ driverResult'[t] \in {"ok", "err"}
          /\ driverResult'[t] = "err" =>
               /\ failure'[t] = "none" /\ ret'[t] = "none" /\ CURRENT'[t]
               /\ tasks'[t] = tasks[t]
               /\ SHOULD_POLL'[t] = SHOULD_POLL[t]
               /\ state' = state /\ notified' = notified
               /\ channel' = channel /\ unparked' = unparked
    ]_vars

\* submit() failed with a task queued and the flag set: the next batch is
\* about to start.
SubmitErrorBeforeBatch ==
  \E t \in Threads :
    /\ pc[t] = "batch" /\ driverResult[t] = "err"
    /\ tasks[t] # <<>> /\ SHOULD_POLL[t]

\* C18: a call of unpark_thread or send_waker for an id that is in neither
\* the caller's cache nor the registry unparks no thread, sends to no
\* channel and adds no cache entry; it panics in a debug build and does
\* nothing at all in a release build. A send_waker to a registered peer whose
\* runtime is gone leaves every channel as it is and does not fail.
UnregisteredWakeDoesNothing ==
  [][peerCall'.n # peerCall.n =>
       LET c == peerCall' IN
       /\ (/\ c.id \notin registry
           /\ unpark_cache[c.by][c.id] = 0
           /\ waker_sender_cache[c.by][c.id] = 0) =>
             /\ UNCHANGED <<unparked, channel, unpark_cache,
                            waker_sender_cache, registry, tasks, state,
                            notified, SHOULD_POLL>>
             /\ debug => failure'[c.by] = "debug_assert"
             /\ ~debug => failure'[c.by] = "none"
             /\ \A u \in Threads : u # c.by => failure'[u] = failure[u]
       /\ (c.op = "send" /\ c.id \in registry /\ pc[c.id] = "dropped") =>
             /\ UNCHANGED <<channel, unparked, failure>>
    ]_vars

\* In a release build thread 1 made calls for the unregistered id 2, the
\* latest a send_waker, and lives on.
ReleaseBuildDroppedWaker ==
  /\ ~debug /\ 2 \notin registry
  /\ peerCall.n = 3 /\ peerCall.op = "send" /\ peerCall.id = 2
  /\ failure[1] = "none" /\ channel[2] = <<>>

\* C19: a call of unpark_thread(id) for a registered id sets the unpark of
\* thread id and of no other thread; a call of send_waker(id, w) for a
\* registered id whose runtime lives appends w once at the end of id's
\* channel and touches no other channel; the call that found the endpoint
\* in the registry has stored it in the caller's cache, a call that finds it
\* in the cache goes by the cache and leaves the caches as they are; and a
\* cached endpoint for id is the endpoint the registry holds for id.
PeerEndpointsCached ==
  /\ [](\A t, id \in Threads :
          /\ unpark_cache[t][id] # 0 =>
               unpark_cache[t][id] = GetUnparkHandle(id)
          /\ waker_sender_cache[t][id] # 0 =>
               waker_sender_cache[t][id] = GetWakerSender(id))
  /\ [][peerCall'.n # peerCall.n =>
          LET c == peerCall' IN
          /\ (c.op = "unpark" /\ c.id \in registry) =>
                /\ unparked' = [unparked EXCEPT ![c.id] = TRUE]
                /\ unpark_cache'[c.by][c.id] = c.id
                /\ UNCHANGED <<channel, waker_sender_cache, failure>>
                /\ c.via = IF unpark_cache[c.by][c.id] # 0 THEN "cache"
                           ELSE "registry"
                /\ c.via = "cache" => UNCHANGED unpark_cache
          /\ (c.op = "send" /\ c.id \in registry) =>
                /\ channel' = IF pc[c.id] = "dropped" THEN channel
                              ELSE [channel EXCEPT ![c.id] = Append(@, c.w)]
                /\ waker_sender_cache'[c.by][c.id] = c.id
                /\ UNCHANGED <<unparked, unpark_cache, failure>>
                /\ c.via = IF waker_sender_cache[c.by][c.id] # 0
                           THEN "cache" ELSE "registry"
                /\ c.via = "cache" => UNCHANGED waker_sender_cache
       ]_vars

\* Thread 1 sent two wakers to thread 2, the first by the registry and the
\* second by its cache, and both are in thread 2's channel in that order.
SecondSendByCache ==
  /\ peerCall.op = "send" /\ peerCall.id = 2 /\ peerCall.via = "cache"
  /\ peerCall.n = 2
  /\ channel[2] = <<(<<2, 0>>), peerCall.w>>
  /\ peerCall.w = <<2, 1>>
  /\ unpark_cache[1][2] = 0

\* C21: while the future of a read is not yet polled the source has already
\* lost its first n bytes and the buffer already holds them with init = n;
\* the poll of that future changes neither, and a read future dropped
\* unpolled leaves the source n bytes shorter than it was at the call. While
\* the future of a readv is not yet polled the source and the buffer are as
\* they were at the call; its poll is what advances the source, and a readv
\* future dropped unpolled leaves the source as it was.
ReadEagerReadvLazy ==
  /\ [](fut.kind = "read" =>
          /\ fut.n = Min(Len(fut.before), Len(fut.given.iov[1]))
          /\ source = Skip(fut.before, fut.n)
          /\ Take(fut.buf.iov[1], fut.n) = Take(fut.before, fut.n)
          /\ fut.buf.init = fut.n)
  /\ [](fut.kind = "readv" => source = fut.before /\ fut.buf = fut.given)
  /\ [](res.kind = "dropped_read" => res.after = Skip(res.before, res.n))
  /\ [](res.kind = "dropped_readv" => res.after = res.before)
  /\ [][/\ (fut.kind # "none" /\ fut'.kind = "none" /\ res'.kind # "readv") =>
              source' = source
        /\ (fut.kind = "readv" /\ res'.kind = "readv") =>
              source' = Skip(source, res'.n)
        /\ (fut.kind = "none" /\ fut'.kind = "read") =>
              source' = Skip(source, fut'.n)
        /\ (fut.kind = "none" /\ fut'.kind = "readv") => source' = source
       ]_vars

\* A read into a buffer of capacity 3 was dropped unpolled: of 4 source bytes
\* one is left and no chunk was returned.
DroppedReadConsumedThree ==
  /\ res.kind = "dropped_read" /\ res.n = 3
  /\ Len(orig) = 4 /\ Len(source) = 1 /\ chunks = <<>>
  /\ fut.kind = "none"

\* The fields whose setter wraps its argument in Some.
OptionFields == {"bind_address", "send_buf_size", "recv_buf_size"}

\* C22: the configuration starts as the documented default; in every
\* reachable configuration each field holds its default if its setter was
\* never called, else the argument of the latest call of its setter (in Some
\* for the three Option fields); and a call of one setter leaves the other
\* six fields as they were.
SettersChangeOwnFieldOnly ==
  /\ Default = [reuse_port |-> TRUE, reuse_addr |-> TRUE,
                ip_transparent |-> FALSE, bind_address |-> <<>>,
                backlog |-> 1024, send_buf_size |-> <<>>,
                recv_buf_size |-> <<>>]
  /\ [](\A f \in Fields :
          config[f] = IF lastSet[f] = None THEN Default[f]
                      ELSE IF f \in OptionFields THEN lastSet[f]
                      ELSE lastSet[f][1])
  /\ [][\A f \in Fields :
          \/ config'[f] = config[f]
          \/ /\ lastSet'[f] # None
             /\ \A g \in Fields \ {f} :
                  config'[g] = config[g] /\ lastSet'[g] = lastSet[g]
       ]_vars

\* Every setter was called; send_buf_size and recv_buf_size hold different
\* values and backlog is back at the value of the default.
AllSettersCalled ==
  /\ \A f \in Fields : lastSet[f] # None
  /\ config = [reuse_port |-> FALSE, reuse_addr |-> FALSE,
               ip_transparent |-> TRUE, bind_address |-> <<"[::1]:443">>,
               backlog |-> 1024, send_buf_size |-> <<4096>>,
               recv_buf_size |-> <<0>>]
====
